---- MODULE Spec2Model ----
(***************************************************************************)
(* ModeloCohete (src/BDGUI.py): the rocket-landing simulation model, its   *)
(* PID controller, its bounded logs and its command operations.            *)
(*                                                                         *)
(* Number representation.  The program computes with Python floats; the   *)
(* model computes with fixed-point integers in thousandths (1000 stands    *)
(* for 1.0): metres, m/s, degrees, degrees C, percent, atm and the PID     *)
(* gains are all held in thousandths, and a product of two such numbers    *)
(* is divided by 1000 (Mul).  Divisions round towards minus infinity.      *)
(* The wall clock (time.time()) is the integer reloj, which advances by    *)
(* one on every call of actualizar_datos (the driver's fixed cadence).     *)
(*                                                                         *)
(* The driver (ControladorCohete.update_data) calls actualizar_datos and   *)
(* writes to the database: db holds the number of rows of the telemetria   *)
(* table and the rows of the alertas table.                                *)
(***************************************************************************)
EXTENDS Integers, Sequences, FiniteSets, TLC

VARIABLES
    modelo,     \* the ModeloCohete instance: a record of its attributes
    reloj,      \* wall clock, in driver periods since the process started
    ultima,     \* name of the last operation called on the model
    datos,      \* <<snapshot>> returned by the last actualizar_datos, else <<>>
    exito,      \* value returned by the last desplegar_tren
    excepcion,  \* TRUE when the last call let an exception reach its caller
    args,       \* the arguments of the last operation, as a sequence
    plan,       \* number of pre-flight commands issued (flight scenario)
    libres,     \* number of freely chosen steps taken so far
    db,         \* CoheteDatabase: [telemetria: row count, alertas: bag of rows]
    gemelo      \* a second ModeloCohete instance, run beside the first

vars == <<modelo, reloj, ultima, datos, exito, excepcion, args, plan, libres,
          db, gemelo>>

(***************************************************************************)
(* Fixed-point helpers                                                     *)
(***************************************************************************)
Max(a, b) == IF a >= b THEN a ELSE b
Min(a, b) == IF a <= b THEN a ELSE b

\* g * x for g and x in thousandths; exact floor(g*x/1000), written so that
\* no intermediate product leaves the 32-bit range
Mul(g, x) == g * (x \div 1000) + (g * (x % 1000)) \div 1000

\* math.sin(math.radians(d)) for d in thousandths of a degree, 0 <= d < 360000
\* (Bhaskara's rational approximation on whole degrees), in thousandths
SinGrados(d) ==
    LET g == (d \div 1000) % 360
        h == IF g <= 180 THEN g ELSE g - 180
        p == h * (180 - h)
        v == (4000 * p) \div (40500 - p)
    IN  IF g <= 180 THEN v ELSE -v

\* math.exp(-x) for x >= 0 in thousandths (Taylor polynomial of degree 3)
ExpNeg(x) == 1000 - x + ((x * x) \div 2000) - ((((x * x) \div 1000) * x) \div 6000)

\* src/BDGUI.py:133  1.0 * math.exp(-self.altitud / 8500)
PresionDe(altitud) == ExpNeg(altitud \div 8500)

\* src/BDGUI.py:136  30 + (1000 - min(self.altitud, 1000)) / 10
HumedadDe(altitud) == 30000 + (1000000 - Min(altitud, 1000000)) \div 10

(***************************************************************************)
(* Arguments of the commands and Python's float()                          *)
(* An argument is a number (a slider value), a text, or None.              *)
(***************************************************************************)
Num(n) == [tipo |-> "num", num |-> n, txt |-> <<>>]
Txt(t) == [tipo |-> "txt", num |-> 0, txt |-> t]
None == [tipo |-> "none", num |-> 0, txt |-> <<>>]

Digitos == {"0", "1", "2", "3", "4", "5", "6", "7", "8", "9"}

DigitoVal(c) ==
    CASE c = "0" -> 0 [] c = "1" -> 1 [] c = "2" -> 2 [] c = "3" -> 3
      [] c = "4" -> 4 [] c = "5" -> 5 [] c = "6" -> 6 [] c = "7" -> 7
      [] c = "8" -> 8 [] c = "9" -> 9

\* value of a sequence of digits, most significant first
RECURSIVE Entero(_)
Entero(t) ==
    IF t = <<>> THEN 0
    ELSE 10 * Entero(SubSeq(t, 1, Len(t) - 1)) + DigitoVal(t[Len(t)])

\* the fraction .t in thousandths (digits after the third are dropped)
Fraccion(t) ==
    LET d(i) == IF i <= Len(t) THEN DigitoVal(t[i]) ELSE 0
    IN  100 * d(1) + 10 * d(2) + d(3)

\* float() of a decimal literal without sign: digits, at most one point
ParseSinSigno(t) ==
    LET puntos == {i \in 1..Len(t) : t[i] = "."}
        soloDigitos == \A i \in 1..Len(t) : t[i] \in Digitos \/ t[i] = "."
    IN  IF ~soloDigitos \/ Cardinality(puntos) > 1 \/ Len(t) = Cardinality(puntos)
        THEN [ok |-> FALSE, val |-> 0]
        ELSE IF puntos = {}
        THEN [ok |-> TRUE, val |-> 1000 * Entero(t)]
        ELSE LET p == CHOOSE i \in puntos : TRUE
             IN  [ok |-> TRUE,
                  val |-> 1000 * Entero(SubSeq(t, 1, p - 1))
                          + Fraccion(SubSeq(t, p + 1, Len(t)))]

\* float(x): [err |-> "" and the value, or the name of the exception raised]
Float(x) ==
    IF x.tipo = "num" THEN [err |-> "", val |-> x.num]
    ELSE IF x.tipo = "none" THEN [err |-> "TypeError", val |-> 0]
    ELSE LET neg == x.txt # <<>> /\ x.txt[1] = "-"
             r == ParseSinSigno(IF neg THEN Tail(x.txt) ELSE x.txt)
         IN  IF ~r.ok THEN [err |-> "ValueError", val |-> 0]
             ELSE [err |-> "", val |-> IF neg THEN -r.val ELSE r.val]

\* except (ValueError, TypeError)
Capturada(err) == err \in {"ValueError", "TypeError"}

(***************************************************************************)
(* ModeloCohete: construction                                              *)
(***************************************************************************)
\* an entry of self.alertas: the tuple (message, critical); args holds the
\* values an f-string message interpolates
Alerta(mensaje, critico) == [mensaje |-> mensaje, args |-> <<>>, critico |-> critico]

add_alert(s, a) == [s EXCEPT !.alertas = Append(@, a)]

add_initial_alerts ==
    << Alerta("Sistema: Todos los sistemas nominales", FALSE),
       Alerta("Comunicacion: Enlace estable con la base", FALSE),
       Alerta("Navegacion: GPS con 8 satelites", FALSE) >>

\* ModeloCohete.__init__: viento0 and direccion0 are the two random.uniform
\* draws of _initialize_environment, ahora is time.time()
ModeloCohete(viento0, direccion0, ahora) ==
    [ altitud |-> 1000000, velocidad |-> -50000, orientacion |-> 0,
      aceleracion |-> 0,
      temperatura |-> 150000, combustible |-> 100000, presion |-> 1000,
      humedad |-> 30000, viento |-> viento0, direccion_viento |-> direccion0,
      estado_propulsores |-> FALSE, tren_desplegado |-> FALSE,
      mision_abortada |-> FALSE, potencia_propulsores |-> 0,
      Kp |-> 500, Ki |-> 100, Kd |-> 200,
      error_integral |-> 0, error_anterior |-> 0, altitud_objetivo |-> 0,
      telemetria |-> <<>>, tiempo_inicio |-> ahora, pid_history |-> <<>>,
      alertas |-> add_initial_alerts ]

(***************************************************************************)
(* ModeloCohete.actualizar_datos and its five steps.  r is the tick's      *)
(* sequence of random.uniform draws: r.v (velocity noise, [-2, 2]),        *)
(* r.o (orientation, [-1, 1]), r.t (temperature, [-0.5, 0.5]),             *)
(* r.w (wind speed, [-1, 1]) and r.d (wind direction, [-5, 5]).            *)
(***************************************************************************)
\* Kp*e + Ki*i + Kd*d
SalidaPid(s, e, i, d) == Mul(s.Kp, e) + Mul(s.Ki, i) + Mul(s.Kd, d)

\* mutant of Potencia10: the factor 10 is missing
M_Potencia10(x) == IF x >= 10000 THEN 100000 ELSE IF x <= 0 THEN 0 ELSE x

\* mutant of Potencia10: the ceiling of 100 is missing
M_Potencia10_sin_tope(x) == IF x <= 0 THEN 0 ELSE x * 10

\* max(0, min(100, x * 10)), computed without forming x * 10 out of range
Potencia10(x) == IF x >= 10000 THEN 100000 ELSE IF x <= 0 THEN 0 ELSE x * 10

\* mutant of update_pid_control: without thrust the throttle is forced to 0
M_update_pid_control(s) ==
    LET error == s.altitud - s.altitud_objetivo
        integral == s.error_integral + error
        error_derivativo == error - s.error_anterior
        salida_pid == SalidaPid(s, error, integral, error_derivativo)
        s1 == [s EXCEPT !.error_integral = integral, !.error_anterior = error]
    IN  IF s.estado_propulsores /\ s.combustible > 0
        THEN [s1 EXCEPT !.potencia_propulsores = Potencia10(salida_pid),
                        !.aceleracion = Potencia10(salida_pid) \div 10]
        ELSE [s1 EXCEPT !.aceleracion = 0, !.potencia_propulsores = 0]

\* mutant of update_pid_control: the integral accumulates only while the
\* thrusters can act (an anti-windup guard)
M_update_pid_control_sin_integral(s) ==
    LET error == s.altitud - s.altitud_objetivo
        activo == s.estado_propulsores /\ s.combustible > 0
        integral == IF activo THEN s.error_integral + error ELSE s.error_integral
        error_derivativo == error - s.error_anterior
        salida_pid == SalidaPid(s, error, integral, error_derivativo)
        s1 == [s EXCEPT !.error_integral = integral, !.error_anterior = error]
    IN  IF activo
        THEN [s1 EXCEPT !.potencia_propulsores = Potencia10(salida_pid),
                        !.aceleracion = Potencia10(salida_pid) \div 10]
        ELSE [s1 EXCEPT !.aceleracion = 0]

\* mutant of update_pid_control: the controller never lowers the throttle
\* below the value it finds
M_update_pid_control_manual(s) ==
    LET error == s.altitud - s.altitud_objetivo
        integral == s.error_integral + error
        error_derivativo == error - s.error_anterior
        salida_pid == SalidaPid(s, error, integral, error_derivativo)
        potencia == Max(s.potencia_propulsores, Potencia10(salida_pid))
        s1 == [s EXCEPT !.error_integral = integral, !.error_anterior = error]
    IN  IF s.estado_propulsores /\ s.combustible > 0
        THEN [s1 EXCEPT !.potencia_propulsores = potencia,
                        !.aceleracion = potencia \div 10]
        ELSE [s1 EXCEPT !.aceleracion = 0]

update_pid_control(s) ==
    LET error == s.altitud - s.altitud_objetivo
        integral == s.error_integral + error
        error_derivativo == error - s.error_anterior
        salida_pid == SalidaPid(s, error, integral, error_derivativo)
        s1 == [s EXCEPT !.error_integral = integral, !.error_anterior = error]
    IN  IF s.estado_propulsores /\ s.combustible > 0
        THEN [s1 EXCEPT !.potencia_propulsores = Potencia10(salida_pid),
                        !.aceleracion = Potencia10(salida_pid) \div 10]
        ELSE [s1 EXCEPT !.aceleracion = 0]

\* mutant of update_physics: the altitude is not clamped at 0
M_update_physics_sin_max(s, r) ==
    LET velocidad == s.velocidad + ((s.aceleracion - 9810) \div 10) + r.v
                     + Mul(s.viento \div 10, SinGrados(s.direccion_viento))
        s1 == [s EXCEPT !.velocidad = velocidad,
                        !.altitud = s.altitud + (velocidad \div 10),
                        !.orientacion = (s.orientacion + r.o) % 360000]
    IN  IF s.estado_propulsores /\ s.combustible > 0
        THEN [s1 EXCEPT !.combustible = @ - (s.potencia_propulsores \div 200),
                        !.temperatura = @ + (s.potencia_propulsores \div 20)]
        ELSE s1

\* mutant of update_physics: fuel burns whenever the thrusters are engaged,
\* also when none is left
M_update_physics_sin_guardia(s, r) ==
    LET velocidad == s.velocidad + ((s.aceleracion - 9810) \div 10) + r.v
                     + Mul(s.viento \div 10, SinGrados(s.direccion_viento))
        s1 == [s EXCEPT !.velocidad = velocidad,
                        !.altitud = Max(0, s.altitud + (velocidad \div 10)),
                        !.orientacion = (s.orientacion + r.o) % 360000]
    IN  IF s.estado_propulsores
        THEN [s1 EXCEPT !.combustible = @ - (s.potencia_propulsores \div 200),
                        !.temperatura = @ + (s.potencia_propulsores \div 20)]
        ELSE s1

update_physics(s, r) ==
    LET velocidad == s.velocidad + ((s.aceleracion - 9810) \div 10) + r.v
                     + Mul(s.viento \div 10, SinGrados(s.direccion_viento))
        s1 == [s EXCEPT !.velocidad = velocidad,
                        !.altitud = Max(0, s.altitud + (velocidad \div 10)),
                        !.orientacion = (s.orientacion + r.o) % 360000]
    IN  IF s.estado_propulsores /\ s.combustible > 0
        THEN [s1 EXCEPT !.combustible = @ - (s.potencia_propulsores \div 200),
                        !.temperatura = @ + (s.potencia_propulsores \div 20)]
        ELSE s1

\* mutant of update_environment: the temperature has a floor but no ceiling
M_update_environment(s, r) ==
    [s EXCEPT !.temperatura = Max(20000, s.temperatura + r.t),
              !.presion = PresionDe(s.altitud),
              !.humedad = HumedadDe(s.altitud),
              !.viento = Max(0, Min(s.viento + r.w, 20000)),
              !.direccion_viento = (s.direccion_viento + r.d) % 360000]

update_environment(s, r) ==
    [s EXCEPT !.temperatura = Max(20000, Min(s.temperatura + r.t, 300000)),
              !.presion = PresionDe(s.altitud),
              !.humedad = HumedadDe(s.altitud),
              !.viento = Max(0, Min(s.viento + r.w, 20000)),
              !.direccion_viento = (s.direccion_viento + r.d) % 360000]

\* mutant of check_alerts: the conditions are chained with elif, so a tick
\* raises at most one alert
M_check_alerts(s) ==
    IF s.altitud < 10000 /\ s.velocidad < -15000
    THEN add_alert(s, Alerta("ALERTA: Velocidad de descenso peligrosa!", TRUE))
    ELSE IF s.combustible < 10000
    THEN add_alert(s, Alerta("ALERTA: Combustible critico!", TRUE))
    ELSE IF s.temperatura > 250000
    THEN add_alert(s, Alerta("ALERTA: Temperatura critica!", TRUE))
    ELSE s

\* mutant of check_alerts: the fuel alert is raised only while the log holds
\* none
M_check_alerts_una_vez(s) ==
    LET combustible == Alerta("ALERTA: Combustible critico!", TRUE)
        s1 == IF s.altitud < 10000 /\ s.velocidad < -15000
              THEN add_alert(s, Alerta("ALERTA: Velocidad de descenso peligrosa!", TRUE))
              ELSE s
        s2 == IF s1.combustible < 10000
                 /\ \A i \in 1..Len(s1.alertas) : s1.alertas[i] # combustible
              THEN add_alert(s1, combustible)
              ELSE s1
    IN  IF s2.temperatura > 250000
        THEN add_alert(s2, Alerta("ALERTA: Temperatura critica!", TRUE))
        ELSE s2

check_alerts(s) ==
    LET s1 == IF s.altitud < 10000 /\ s.velocidad < -15000
              THEN add_alert(s, Alerta("ALERTA: Velocidad de descenso peligrosa!", TRUE))
              ELSE s
        s2 == IF s1.combustible < 10000
              THEN add_alert(s1, Alerta("ALERTA: Combustible critico!", TRUE))
              ELSE s1
    IN  IF s2.temperatura > 250000
        THEN add_alert(s2, Alerta("ALERTA: Temperatura critica!", TRUE))
        ELSE s2

\* mutant of Ultimos: the slice q[:n], the first n entries
M_Ultimos(q, n) == IF Len(q) <= n THEN q ELSE SubSeq(q, 1, n)

\* the last n entries of q, q[-n:]
Ultimos(q, n) == IF Len(q) <= n THEN q ELSE SubSeq(q, Len(q) - n + 1, Len(q))

\* the expression of lines 169-171 and 205-207
SalidaRegistrada(s) ==
    SalidaPid(s, s.error_anterior, s.error_integral,
              s.error_anterior - s.error_integral)

\* mutant of record_telemetry: an alert log longer than 20 is cut to its
\* last 20 entries
M_record_telemetry_alertas(s, ahora) ==
    LET tiempo_actual == ahora - s.tiempo_inicio
        telemetria == Append(s.telemetria,
            [ tiempo |-> tiempo_actual, altitud |-> s.altitud,
              velocidad |-> s.velocidad, orientacion |-> s.orientacion,
              temperatura |-> s.temperatura, aceleracion |-> s.aceleracion,
              presion |-> s.presion ])
        pid_history == Append(s.pid_history,
            [ tiempo |-> tiempo_actual, error |-> s.error_anterior,
              salida_pid |-> SalidaRegistrada(s),
              potencia |-> s.potencia_propulsores ])
    IN  [s EXCEPT
           !.telemetria = IF Len(telemetria) > 500 THEN Ultimos(telemetria, 250)
                          ELSE telemetria,
           !.pid_history = IF Len(pid_history) > 500 THEN Ultimos(pid_history, 250)
                           ELSE pid_history,
           !.alertas = IF Len(s.alertas) > 20 THEN Ultimos(s.alertas, 20)
                       ELSE s.alertas]

\* mutant of record_telemetry: the controller history is cut when it
\* reaches 500 entries, one tick before the telemetry
M_record_telemetry_pid(s, ahora) ==
    LET tiempo_actual == ahora - s.tiempo_inicio
        telemetria == Append(s.telemetria,
            [ tiempo |-> tiempo_actual, altitud |-> s.altitud,
              velocidad |-> s.velocidad, orientacion |-> s.orientacion,
              temperatura |-> s.temperatura, aceleracion |-> s.aceleracion,
              presion |-> s.presion ])
        pid_history == Append(s.pid_history,
            [ tiempo |-> tiempo_actual, error |-> s.error_anterior,
              salida_pid |-> SalidaRegistrada(s),
              potencia |-> s.potencia_propulsores ])
    IN  [s EXCEPT
           !.telemetria = IF Len(telemetria) > 500 THEN Ultimos(telemetria, 250)
                          ELSE telemetria,
           !.pid_history = IF Len(pid_history) >= 500 THEN Ultimos(pid_history, 250)
                           ELSE pid_history,
           !.alertas = IF Len(s.alertas) > 20 THEN Ultimos(s.alertas, 10)
                       ELSE s.alertas]

record_telemetry(s, ahora) ==
    LET tiempo_actual == ahora - s.tiempo_inicio
        telemetria == Append(s.telemetria,
            [ tiempo |-> tiempo_actual, altitud |-> s.altitud,
              velocidad |-> s.velocidad, orientacion |-> s.orientacion,
              temperatura |-> s.temperatura, aceleracion |-> s.aceleracion,
              presion |-> s.presion ])
        pid_history == Append(s.pid_history,
            [ tiempo |-> tiempo_actual, error |-> s.error_anterior,
              salida_pid |-> SalidaRegistrada(s),
              potencia |-> s.potencia_propulsores ])
    IN  [s EXCEPT
           !.telemetria = IF Len(telemetria) > 500 THEN Ultimos(telemetria, 250)
                          ELSE telemetria,
           !.pid_history = IF Len(pid_history) > 500 THEN Ultimos(pid_history, 250)
                           ELSE pid_history,
           !.alertas = IF Len(s.alertas) > 20 THEN Ultimos(s.alertas, 10)
                       ELSE s.alertas]

get_current_data(s) ==
    [ altitud |-> s.altitud, velocidad |-> s.velocidad,
      orientacion |-> s.orientacion, temperatura |-> s.temperatura,
      combustible |-> s.combustible, presion |-> s.presion,
      humedad |-> s.humedad, viento |-> s.viento,
      direccion_viento |-> s.direccion_viento, aceleracion |-> s.aceleracion,
      propulsores |-> s.estado_propulsores, potencia |-> s.potencia_propulsores,
      tren |-> s.tren_desplegado, abortado |-> s.mision_abortada,
      pid |-> [ Kp |-> s.Kp, Ki |-> s.Ki, Kd |-> s.Kd, error |-> s.error_anterior,
                salida |-> IF ~s.mision_abortada THEN SalidaRegistrada(s) ELSE 0 ],
      alertas |-> s.alertas, tiempo_inicio |-> s.tiempo_inicio ]

\* mutant of actualizar_datos: the guard on mision_abortada is missing
M_actualizar_datos(s, r, ahora) ==
    record_telemetry(
        check_alerts(
            update_environment(update_physics(update_pid_control(s), r), r)),
        ahora)

\* the instance after actualizar_datos called at wall time ahora
actualizar_datos(s, r, ahora) ==
    IF ~s.mision_abortada
    THEN record_telemetry(
             check_alerts(
                 update_environment(update_physics(update_pid_control(s), r), r)),
             ahora)
    ELSE s

(***************************************************************************)
(* ModeloCohete: the command operations                                    *)
(***************************************************************************)
\* mutant of activar_propulsores: switching the thrusters off cancels an abort
M_activar_propulsores(s, estado) ==
    add_alert([s EXCEPT !.estado_propulsores = estado,
                        !.mision_abortada = @ /\ estado],
              Alerta(IF estado THEN "Propulsores activados"
                     ELSE "Propulsores desactivados", FALSE))

\* mutant of activar_propulsores: a request for the state the thrusters are
\* already in is ignored
M_activar_propulsores_sin_cambio(s, estado) ==
    IF s.estado_propulsores = estado THEN s
    ELSE add_alert([s EXCEPT !.estado_propulsores = estado],
                   Alerta(IF estado THEN "Propulsores activados"
                          ELSE "Propulsores desactivados", FALSE))

activar_propulsores(s, estado) ==
    add_alert([s EXCEPT !.estado_propulsores = estado],
              Alerta(IF estado THEN "Propulsores activados"
                     ELSE "Propulsores desactivados", FALSE))

\* mutant of ajustar_potencia: a failed conversion also zeroes the throttle
M_ajustar_potencia(s, potencia) ==
    LET f == Float(potencia)
    IN  IF f.err = "" THEN [s EXCEPT !.potencia_propulsores = f.val]
        ELSE add_alert([s EXCEPT !.potencia_propulsores = 0],
                       Alerta("Error: Valor de potencia no valido", TRUE))

ajustar_potencia(s, potencia) ==
    LET f == Float(potencia)
    IN  IF f.err = "" THEN [s EXCEPT !.potencia_propulsores = f.val]
        ELSE add_alert(s, Alerta("Error: Valor de potencia no valido", TRUE))

\* mutant of puede_desplegar: the altitude limit is 1000 instead of 100
M_puede_desplegar(s) == s.altitud < 1000000 /\ ~s.tren_desplegado

\* the condition of line 229: the value desplegar_tren returns
puede_desplegar(s) == s.altitud < 100000 /\ ~s.tren_desplegado

desplegar_tren(s) ==
    IF puede_desplegar(s)
    THEN add_alert([s EXCEPT !.tren_desplegado = TRUE],
                   Alerta("Tren de aterrizaje desplegado", TRUE))
    ELSE add_alert(s, Alerta("No se puede desplegar el tren a esta altitud", FALSE))

\* mutant of abortar_mision: the abort also applies the full thrust at once
M_abortar_mision(s) ==
    add_alert([s EXCEPT !.mision_abortada = TRUE, !.estado_propulsores = TRUE,
                        !.potencia_propulsores = 100000, !.aceleracion = 10000],
              Alerta("MISION ABORTADA!", TRUE))

abortar_mision(s) ==
    add_alert([s EXCEPT !.mision_abortada = TRUE, !.estado_propulsores = TRUE,
                        !.potencia_propulsores = 100000],
              Alerta("MISION ABORTADA!", TRUE))

\* mutant of ajustar_pid: new gains also clear the controller's accumulators
M_ajustar_pid(s, Kp, Ki, Kd) ==
    LET a == Float(Kp)
        b == Float(Ki)
        c == Float(Kd)
        error == Alerta("Error: Valores PID no validos", TRUE)
        s1 == [s EXCEPT !.Kp = a.val]
        s2 == [s1 EXCEPT !.Ki = b.val]
        s3 == [s2 EXCEPT !.Kd = c.val, !.error_integral = 0, !.error_anterior = 0]
    IN  IF a.err # "" THEN add_alert(s, error)
        ELSE IF b.err # "" THEN add_alert(s1, error)
        ELSE IF c.err # "" THEN add_alert(s2, error)
        ELSE add_alert(s3, [mensaje |-> "PID ajustado: Kp=, Ki=, Kd=",
                            args |-> <<Kp, Ki, Kd>>, critico |-> FALSE])

\* the three assignments of the try block run in order: one that raises
\* leaves the earlier ones done
ajustar_pid(s, Kp, Ki, Kd) ==
    LET a == Float(Kp)
        b == Float(Ki)
        c == Float(Kd)
        error == Alerta("Error: Valores PID no validos", TRUE)
        s1 == [s EXCEPT !.Kp = a.val]
        s2 == [s1 EXCEPT !.Ki = b.val]
        s3 == [s2 EXCEPT !.Kd = c.val]
    IN  IF a.err # "" THEN add_alert(s, error)
        ELSE IF b.err # "" THEN add_alert(s1, error)
        ELSE IF c.err # "" THEN add_alert(s2, error)
        ELSE add_alert(s3, [mensaje |-> "PID ajustado: Kp=, Ki=, Kd=",
                            args |-> <<Kp, Ki, Kd>>, critico |-> FALSE])

\* mutant of reiniciar_simulacion: _initialize_pid is not run again, the
\* gains and the controller accumulators survive the reset
M_reiniciar_simulacion(viento0, direccion0, ahora) ==
    add_alert([ModeloCohete(viento0, direccion0, ahora) EXCEPT
                   !.Kp = modelo.Kp, !.Ki = modelo.Ki, !.Kd = modelo.Kd,
                   !.error_integral = modelo.error_integral,
                   !.error_anterior = modelo.error_anterior],
              Alerta("Simulacion reiniciada", TRUE))

reiniciar_simulacion(viento0, direccion0, ahora) ==
    add_alert(ModeloCohete(viento0, direccion0, ahora),
              Alerta("Simulacion reiniciada", TRUE))

(***************************************************************************)
(* ControladorCohete.update_data: what the driver writes to the database   *)
(* after each actualizar_datos.  A bag of rows is a function from the rows *)
(* present to the number of copies (the id and timestamp columns are left  *)
(* out).                                                                   *)
(***************************************************************************)
\* CoheteDatabase.insert_alert: one more row (mensaje, critica)
insert_alert(tabla, a) ==
    IF a \in DOMAIN tabla THEN [tabla EXCEPT ![a] = @ + 1]
    ELSE tabla @@ (a :> 1)

\* the text of an alert, a[0]: the message with the values it interpolates
Texto(a) == <<a.mensaje, a.args>>

\* line 1694: the text of a is not among those of self.modelo.alertas[:-1]
es_nueva(a, alertas) ==
    \A i \in 1..(Len(alertas) - 1) : Texto(alertas[i]) # Texto(a)

\* lines 1693-1695: the loop over datos['alertas'], the model's own list
RECURSIVE guardar_alertas(_, _, _)
guardar_alertas(tabla, alertas, i) ==
    IF i > Len(alertas) THEN tabla
    ELSE guardar_alertas(
             IF es_nueva(alertas[i], alertas)
             THEN insert_alert(tabla, [mensaje |-> Texto(alertas[i]),
                                       critica |-> alertas[i].critico])
             ELSE tabla,
             alertas, i + 1)

\* lines 1690-1695: the database after update_data has stored the snapshot
\* of instance s
update_data(d, s) ==
    [ telemetria |-> d.telemetria + 1,
      alertas |-> guardar_alertas(d.alertas, s.alertas, 1) ]

(***************************************************************************)
(* Inputs the operations are called with                                   *)
(***************************************************************************)
\* the random.uniform draws of one tick: none, the upper ends, the lower ends
RuidoNulo == [v |-> 0, o |-> 0, t |-> 0, w |-> 0, d |-> 0]
RuidoMax == [v |-> 2000, o |-> 1000, t |-> 500, w |-> 1000, d |-> 5000]
RuidoMin == [v |-> -2000, o |-> -1000, t |-> -500, w |-> -1000, d |-> -5000]
Ruidos == {RuidoNulo, RuidoMax, RuidoMin}

\* (viento, direccion_viento) drawn at construction: uniform(0, 10), uniform(0, 360)
VientosIniciales == {<<0, 0>>, <<5000, 90000>>}

Malo == Txt(<<"b", "a", "d">>)

\* arguments of ajustar_potencia
Potencias == {Num(50000), Num(150000), Num(-5000), Malo, None}
PotenciasVuelo == {Num(150000)}

\* arguments of ajustar_pid
GananciasBajas == <<Num(0), Num(1), Num(0)>>
Ganancias ==
    { GananciasBajas,
      <<Num(500), Num(0), Num(0)>>,
      <<Num(-500), Num(100), Num(200)>>,
      <<Txt(<<"0", ".", "5">>), Txt(<<"0", ".", "1">>), Txt(<<"0", ".", "2">>)>>,
      <<Malo, Txt(<<"0", ".", "1">>), Txt(<<"0", ".", "2">>)>>,
      <<Txt(<<"0", ".", "9">>), Malo, Txt(<<"0", ".", "2">>)>>,
      <<Num(900), Num(300), None>> }
GananciasVuelo == { <<Txt(<<"0", ".", "9">>), Malo, Txt(<<"0", ".", "2">>)>> }

(***************************************************************************)
(* Actions: one call of one operation of the instance                      *)
(***************************************************************************)
Llamada(nombre, argumentos) ==
    /\ ultima' = nombre
    /\ args' = argumentos

ActualizarDatos(r) ==
    /\ reloj' = reloj + 1
    /\ modelo' = actualizar_datos(modelo, r, reloj + 1)
    /\ datos' = <<get_current_data(modelo')>>
    /\ db' = update_data(db, modelo')
    /\ Llamada("actualizar_datos", <<>>)
    /\ excepcion' = FALSE
    /\ UNCHANGED exito

ActivarPropulsores(estado) ==
    /\ modelo' = activar_propulsores(modelo, estado)
    /\ Llamada("activar_propulsores", <<estado>>)
    /\ excepcion' = FALSE
    /\ UNCHANGED <<reloj, datos, exito, db>>

AjustarPotencia(potencia) ==
    /\ modelo' = ajustar_potencia(modelo, potencia)
    /\ Llamada("ajustar_potencia", <<potencia>>)
    /\ excepcion' = ~(Float(potencia).err = "" \/ Capturada(Float(potencia).err))
    /\ UNCHANGED <<reloj, datos, exito, db>>

DesplegarTren ==
    /\ modelo' = desplegar_tren(modelo)
    /\ exito' = puede_desplegar(modelo)
    /\ Llamada("desplegar_tren", <<>>)
    /\ excepcion' = FALSE
    /\ UNCHANGED <<reloj, datos, db>>

AbortarMision ==
    /\ modelo' = abortar_mision(modelo)
    /\ Llamada("abortar_mision", <<>>)
    /\ excepcion' = FALSE
    /\ UNCHANGED <<reloj, datos, exito, db>>

AjustarPid(g) ==
    /\ modelo' = ajustar_pid(modelo, g[1], g[2], g[3])
    /\ Llamada("ajustar_pid", g)
    /\ excepcion' = \E i \in 1..3 :
                        Float(g[i]).err # "" /\ ~Capturada(Float(g[i]).err)
    /\ UNCHANGED <<reloj, datos, exito, db>>

ReiniciarSimulacion(w) ==
    /\ modelo' = reiniciar_simulacion(w[1], w[2], reloj)
    /\ Llamada("reiniciar_simulacion", <<>>)
    /\ excepcion' = FALSE
    /\ UNCHANGED <<reloj, datos, exito, db>>

Init ==
    /\ \E w \in VientosIniciales : modelo = ModeloCohete(w[1], w[2], 0)
    /\ reloj = 0
    /\ ultima = "__init__"
    /\ args = <<>>
    /\ datos = <<>>
    /\ exito = FALSE
    /\ excepcion = FALSE
    /\ plan = 0
    /\ libres = 0
    /\ db = [telemetria |-> 0, alertas |-> <<>>]
    /\ gemelo = modelo

(***************************************************************************)
(* Spec: every interleaving of at most MaxPasos calls, each any operation  *)
(* with any of the inputs above, from construction.                        *)
(***************************************************************************)
MaxPasos == 4

Paso == libres < MaxPasos /\ libres' = libres + 1 /\ UNCHANGED <<plan, gemelo>>

Next ==
    \/ \E r \in Ruidos : Paso /\ ActualizarDatos(r)
    \/ \E e \in BOOLEAN : Paso /\ ActivarPropulsores(e)
    \/ \E p \in Potencias : Paso /\ AjustarPotencia(p)
    \/ Paso /\ DesplegarTren
    \/ Paso /\ AbortarMision
    \/ \E g \in Ganancias : Paso /\ AjustarPid(g)
    \/ \E w \in VientosIniciales : Paso /\ ReiniciarSimulacion(w)

Spec == Init /\ [][Next]_vars

(***************************************************************************)
(* SpecVuelo: a whole flight.  Before the first tick the crew may switch   *)
(* the thrusters on and then retune the controller; the driver then ticks  *)
(* with a silent random source (all draws 0) for up to MaxVuelo ticks; the *)
(* crew deploys the gear at the first tick that allows it, or not at all.  *)
(* At any point of the flight up to MaxCola further calls follow, each any *)
(* operation, and the run ends there.                                      *)
(***************************************************************************)
MaxVuelo == 215
MaxCola == 2

EnPlan == libres = 0 /\ UNCHANGED <<libres, gemelo>>

Encender ==
    /\ EnPlan /\ reloj = 0 /\ plan = 0 /\ plan' = 1
    /\ ActivarPropulsores(TRUE)

Sintonizar ==
    /\ EnPlan /\ reloj = 0 /\ plan = 1 /\ plan' = 2
    /\ AjustarPid(GananciasBajas)

Crucero ==
    /\ EnPlan /\ reloj < MaxVuelo /\ UNCHANGED plan
    /\ ActualizarDatos(RuidoNulo)

\* the altitude recorded one tick before the last one
AltitudAnterior ==
    IF Len(modelo.telemetria) >= 2
    THEN modelo.telemetria[Len(modelo.telemetria) - 1].altitud
    ELSE 1000000

Aproximacion ==
    /\ EnPlan /\ UNCHANGED plan
    /\ ultima = "actualizar_datos"
    /\ puede_desplegar(modelo) /\ AltitudAnterior >= 100000
    /\ DesplegarTren

Cola == libres < MaxCola /\ libres' = libres + 1 /\ UNCHANGED <<plan, gemelo>>

NextVuelo ==
    \/ Encender
    \/ Sintonizar
    \/ Crucero
    \/ Aproximacion
    \/ \E r \in Ruidos : Cola /\ ActualizarDatos(r)
    \/ \E e \in BOOLEAN : Cola /\ ActivarPropulsores(e)
    \/ \E p \in PotenciasVuelo : Cola /\ AjustarPotencia(p)
    \/ Cola /\ DesplegarTren
    \/ Cola /\ AbortarMision
    \/ \E g \in GananciasVuelo : Cola /\ AjustarPid(g)
    \/ \E w \in VientosIniciales : Cola /\ ReiniciarSimulacion(w)

SpecVuelo == Init /\ [][NextVuelo]_vars

(***************************************************************************)
(* SpecRegistro: the driver alone, ticking with a silent random source for *)
(* up to MaxRegistro ticks, thrusters on or off from the start: long       *)
(* enough for the history logs to reach their cap twice.  The simulation   *)
(* may be reset once, right after a tick that cut the logs.                *)
(***************************************************************************)
MaxRegistro == 755

CruceroLargo ==
    /\ EnPlan /\ reloj < MaxRegistro /\ UNCHANGED plan
    /\ ActualizarDatos(RuidoNulo)

ReinicioTardio ==
    /\ EnPlan /\ UNCHANGED plan
    /\ ultima = "actualizar_datos"
    /\ modelo.tiempo_inicio = 0
    /\ Len(modelo.telemetria) = 250
    /\ ReiniciarSimulacion(<<0, 0>>)

NextRegistro ==
    \/ Encender
    \/ CruceroLargo
    \/ ReinicioTardio

SpecRegistro == Init /\ [][NextRegistro]_vars

(***************************************************************************)
(* SpecGemelos: two runs side by side.  modelo and gemelo start equal and  *)
(* receive the same commands (thrusters on, controller retuned) and the    *)
(* same ticks with the same random draws, for up to MaxGemelos ticks; at   *)
(* any point ajustar_potencia may be called on gemelo alone.               *)
(***************************************************************************)
MaxGemelos == 208

EnPareja == libres = 0 /\ UNCHANGED libres

EncenderAmbos ==
    /\ EnPareja /\ reloj = 0 /\ plan = 0 /\ plan' = 1
    /\ ActivarPropulsores(TRUE)
    /\ gemelo' = activar_propulsores(gemelo, TRUE)

SintonizarAmbos ==
    /\ EnPareja /\ reloj = 0 /\ plan = 1 /\ plan' = 2
    /\ AjustarPid(GananciasBajas)
    /\ gemelo' = ajustar_pid(gemelo, GananciasBajas[1], GananciasBajas[2],
                             GananciasBajas[3])

CruceroAmbos ==
    /\ EnPareja /\ reloj < MaxGemelos /\ UNCHANGED plan
    /\ ActualizarDatos(RuidoNulo)
    /\ gemelo' = actualizar_datos(gemelo, RuidoNulo, reloj + 1)

PotenciaGemelo(potencia) ==
    /\ EnPareja
    /\ gemelo' = ajustar_potencia(gemelo, potencia)
    /\ UNCHANGED <<modelo, reloj, ultima, datos, exito, excepcion, args, plan, db>>

NextGemelos ==
    \/ EncenderAmbos
    \/ SintonizarAmbos
    \/ CruceroAmbos
    \/ \E p \in PotenciasVuelo : PotenciaGemelo(p)

SpecGemelos == Init /\ [][NextGemelos]_vars

(***************************************************************************)

(* Properties                                                              *)
(***************************************************************************)
\* b is a with exactly one entry appended, of the given criticality
AgregaUna(a, b, critico) ==
    /\ Len(b) = Len(a) + 1
    /\ SubSeq(b, 1, Len(a)) = a
    /\ b[Len(b)].critico = critico

\* some argument of the last ajustar_pid call does not convert
FalloConversion(g) == \E i \in 1..3 : Float(g[i]).err # ""

\* C1: in every reachable state 0 <= fuel <= 100 (combustible, in
\* thousandths of a percent); a tick that burns fuel never takes it below 0.
C1_CombustibleEnRango ==
    0 <= modelo.combustible /\ modelo.combustible <= 100000

\* C2: in every reachable state 0 <= throttle <= 100 (potencia_propulsores),
\* also directly after ajustar_potencia with any numeric value.
C2_PotenciaEnRango ==
    0 <= modelo.potencia_propulsores /\ modelo.potencia_propulsores <= 100000

\* C3: ajustar_pid is atomic: when the conversion of any of its three
\* arguments fails, Kp, Ki and Kd keep the values they had before the call,
\* exactly one critical alert is appended and no exception reaches the caller.
C3_AjustarPidAtomico ==
    [][ (ultima' = "ajustar_pid" /\ FalloConversion(args'))
        => /\ modelo'.Kp = modelo.Kp
           /\ modelo'.Ki = modelo.Ki
           /\ modelo'.Kd = modelo.Kd
           /\ AgregaUna(modelo.alertas, modelo'.alertas, TRUE)
           /\ ~excepcion' ]_vars

\* C4: once mision_abortada is true, an actualizar_datos call changes no
\* field of the model, and consecutive such calls return equal snapshots.
C4_AbortadaCongelada ==
    [][ (modelo.mision_abortada /\ ultima' = "actualizar_datos")
        => /\ modelo' = modelo
           /\ datos' = <<get_current_data(modelo)>>
           /\ (ultima = "actualizar_datos" => datos' = datos) ]_vars

\* C4 witness: abortar_mision followed by two consecutive actualizar_datos
\* calls (three calls since construction, two of them ticks, nothing recorded)
C4_Testigo ==
    /\ modelo.mision_abortada
    /\ ultima = "actualizar_datos"
    /\ libres = 3 /\ reloj = 2
    /\ modelo.telemetria = <<>>

\* C5: after every actualizar_datos call, also the first after construction
\* or reset and those made while aborted, the snapshot's pressure is
\* exp(-altitude/8500) and its humidity 30 + (1000 - min(altitude, 1000))/10.
C5_PresionHumedad ==
    ultima = "actualizar_datos"
    => /\ datos[1].presion = PresionDe(datos[1].altitud)
       /\ datos[1].humedad = HumedadDe(datos[1].altitud)

\* C6: the alert log never holds more than 20 entries in any reachable state,
\* under any interleaving of ticks and alert-appending commands.
C6_AlertasAcotadas == Len(modelo.alertas) <= 20

\* the telemetry entry a tick ending in instance s at wall time ahora records
EntradaTelemetria(s, ahora) ==
    [ tiempo |-> ahora - s.tiempo_inicio, altitud |-> s.altitud,
      velocidad |-> s.velocidad, orientacion |-> s.orientacion,
      temperatura |-> s.temperatura, aceleracion |-> s.aceleracion,
      presion |-> s.presion ]

\* C7: the telemetry log never holds more than 500 entries; the tick whose
\* append would make it 501 leaves exactly the 250 most recent entries, in
\* their original order, with the entry of that tick last.
C7_TelemetriaAcotada ==
    /\ Len(modelo.telemetria) <= 500
    /\ [][ /\ Len(modelo'.telemetria) <= 500
           /\ (/\ ultima' = "actualizar_datos"
               /\ ~modelo.mision_abortada
               /\ Len(modelo.telemetria) = 500)
              => /\ Len(modelo'.telemetria) = 250
                 /\ SubSeq(modelo'.telemetria, 1, 249)
                      = SubSeq(modelo.telemetria, 252, 500)
                 /\ modelo'.telemetria[250] = EntradaTelemetria(modelo', reloj')
       ]_vars

\* C7 witness: the state after the 501st tick, holding the entries of ticks
\* 252 to 501
C7_Testigo ==
    /\ ultima = "actualizar_datos"
    /\ Len(modelo.telemetria) = 250
    /\ modelo.telemetria[1].tiempo = 252
    /\ modelo.telemetria[250].tiempo = 501

\* C8: in every reachable state, thrusters off or fuel exhausted (fuel <= 0)
\* implies acceleration 0, also between a command and the next tick.
C8_SinEmpujeSinAceleracion ==
    (~modelo.estado_propulsores \/ modelo.combustible <= 0)
    => modelo.aceleracion = 0

\* C9: desplegar_tren returns success and sets tren_desplegado iff
\* altitude < 100 and the gear is not yet deployed at call time; otherwise it
\* returns failure, leaves tren_desplegado unchanged and appends exactly one
\* non-critical alert; in both cases no field other than tren_desplegado and
\* the alert log changes.
C9_DesplegarTren ==
    [][ ultima' = "desplegar_tren"
        => LET ok == modelo.altitud < 100000 /\ ~modelo.tren_desplegado
           IN  /\ exito' = ok
               /\ ok => modelo'.tren_desplegado
               /\ ~ok => /\ modelo'.tren_desplegado = modelo.tren_desplegado
                         /\ AgregaUna(modelo.alertas, modelo'.alertas, FALSE)
               /\ [modelo' EXCEPT !.tren_desplegado = modelo.tren_desplegado,
                                  !.alertas = modelo.alertas] = modelo
               /\ ~excepcion' ]_vars

\* C9 witness: a desplegar_tren call that succeeded
C9_Testigo ==
    /\ ultima = "desplegar_tren"
    /\ exito
    /\ modelo.tren_desplegado
    /\ modelo.altitud < 100000

\* C10: mision_abortada and tren_desplegado are one-way latches: once true
\* each stays true across every tick and every command, and only
\* reiniciar_simulacion returns it to false.
C10_Cerrojos ==
    [][ IF ultima' = "reiniciar_simulacion"
        THEN ~modelo'.mision_abortada /\ ~modelo'.tren_desplegado
        ELSE /\ modelo.mision_abortada => modelo'.mision_abortada
             /\ modelo.tren_desplegado => modelo'.tren_desplegado ]_vars

\* C10 witness: gear deployed and mission aborted, and a tick taken after both
C10_Testigo ==
    /\ modelo.tren_desplegado
    /\ modelo.mision_abortada
    /\ ultima = "actualizar_datos"

\* the instance s with the fields a construction draws or reads from the
\* clock, and its alert log, blanked
SinAzar(s) ==
    [s EXCEPT !.viento = 0, !.direccion_viento = 0, !.tiempo_inicio = 0,
              !.alertas = <<>>]

\* C11 as claimed: reiniciar_simulacion leaves the model in exactly the state
\* of a freshly constructed model, with the same alert log as a new model,
\* apart from the random initial wind and the new time origin.
C11_ReinicioIgualANuevo ==
    [][ ultima' = "reiniciar_simulacion"
        => /\ SinAzar(modelo') = SinAzar(ModeloCohete(0, 0, 0))
           /\ modelo'.alertas = ModeloCohete(0, 0, 0).alertas ]_vars

\* C11 as amended: reiniciar_simulacion leaves every field but the alert log
\* as in a freshly constructed model (wind drawn anew in its initial ranges,
\* time origin the time of the call, logs empty); the alert log is that of a
\* new model followed by exactly one critical alert recording the reset.
C11_ReinicioMasAlerta ==
    [][ ultima' = "reiniciar_simulacion"
        => /\ SinAzar(modelo') = SinAzar(ModeloCohete(0, 0, 0))
           /\ modelo'.tiempo_inicio = reloj'
           /\ 0 <= modelo'.viento /\ modelo'.viento <= 10000
           /\ 0 <= modelo'.direccion_viento /\ modelo'.direccion_viento <= 360000
           /\ AgregaUna(ModeloCohete(0, 0, 0).alertas, modelo'.alertas, TRUE)
       ]_vars

\* C11 witness: a reset made after at least two other calls, one of them a tick
C11_Testigo ==
    /\ ultima = "reiniciar_simulacion"
    /\ modelo.tiempo_inicio > 0
    /\ libres >= 3

\* C12: abortar_mision sets mision_abortada, estado_propulsores and
\* throttle 100 in one step, appends exactly one critical alert and leaves
\* every other field unchanged; the actualizar_datos that follows leaves
\* altitude, velocity and temperature at their pre-abort values.
C12_Abortar ==
    [][ /\ ultima' = "abortar_mision"
           => /\ modelo'.mision_abortada
              /\ modelo'.estado_propulsores
              /\ modelo'.potencia_propulsores = 100000
              /\ AgregaUna(modelo.alertas, modelo'.alertas, TRUE)
              /\ [modelo' EXCEPT
                    !.mision_abortada = modelo.mision_abortada,
                    !.estado_propulsores = modelo.estado_propulsores,
                    !.potencia_propulsores = modelo.potencia_propulsores,
                    !.alertas = modelo.alertas] = modelo
        /\ (ultima = "abortar_mision" /\ ultima' = "actualizar_datos")
           => /\ modelo'.altitud = modelo.altitud
              /\ modelo'.velocidad = modelo.velocidad
              /\ modelo'.temperatura = modelo.temperatura ]_vars

\* C12 witness: a tick, then the abort, then a tick (one telemetry entry from
\* the first tick, none from the second)
C12_Testigo ==
    /\ modelo.mision_abortada
    /\ ultima = "actualizar_datos"
    /\ libres = 3 /\ reloj = 2
    /\ Len(modelo.telemetria) = 1
    /\ modelo.altitud = modelo.telemetria[1].altitud

\* C13: ajustar_potencia with an argument that does not convert to a number
\* leaves throttle and every other field but the alert log unchanged, appends
\* exactly one critical alert and raises nothing to the caller.
C13_PotenciaInvalida ==
    [][ (ultima' = "ajustar_potencia" /\ Float(args'[1]).err # "")
        => /\ [modelo' EXCEPT !.alertas = modelo.alertas] = modelo
           /\ AgregaUna(modelo.alertas, modelo'.alertas, TRUE)
           /\ ~excepcion' ]_vars

\* C13 witness: a rejected ajustar_potencia that left a throttle set before
C13_Testigo ==
    /\ ultima = "ajustar_potencia"
    /\ Float(args[1]).err # ""
    /\ modelo.potencia_propulsores # 0

\* C14: Kp, Ki and Kd are non-negative in every reachable state, whatever
\* numeric arguments ajustar_pid is called with.
C14_GananciasNoNegativas ==
    modelo.Kp >= 0 /\ modelo.Ki >= 0 /\ modelo.Kd >= 0

\* C15: altitude >= 0 in every reachable state: at construction, after every
\* tick whatever the velocity, noise and wind, and after every command.
C15_AltitudNoNegativa == modelo.altitud >= 0

\* C15 witness: a tick that ended on the ground while still descending (the
\* clamp at 0 acted)
C15_Testigo ==
    /\ ultima = "actualizar_datos"
    /\ modelo.altitud = 0
    /\ modelo.velocidad < -10000
    /\ Len(modelo.telemetria) >= 2
    /\ modelo.telemetria[Len(modelo.telemetria) - 1].altitud = 0

\* C16: between two resets fuel never increases, whatever is called, and a
\* call decreases it only if it is a tick made with the mission not aborted,
\* the thrusters engaged and fuel > 0.
C16_CombustibleMonotono ==
    [][ /\ ultima' # "reiniciar_simulacion"
           => modelo'.combustible <= modelo.combustible
        /\ modelo'.combustible < modelo.combustible
           => /\ ultima' = "actualizar_datos"
              /\ ~modelo.mision_abortada
              /\ modelo.estado_propulsores
              /\ modelo.combustible > 0 ]_vars

\* C16 witness: a tick taken with thrusters engaged after fuel ran out, which
\* burned nothing
C16_Testigo ==
    /\ ultima = "actualizar_datos"
    /\ modelo.estado_propulsores
    /\ ~modelo.mision_abortada
    /\ modelo.combustible <= 0
    /\ modelo.aceleracion = 0

\* C17: the controller output stored in the controller-history entry of a
\* tick (salida_pid) and in the snapshot's PID bundle (salida) equals the
\* output computed in the controller step of that tick,
\* Kp*error + Ki*integral + Kd*(error - previous error).
C17_SalidaRegistradaEsLaCalculada ==
    [][ (ultima' = "actualizar_datos" /\ ~modelo.mision_abortada)
        => LET e == modelo.altitud - modelo.altitud_objetivo
               calculada == SalidaPid(modelo, e, modelo.error_integral + e,
                                      e - modelo.error_anterior)
           IN  /\ modelo'.pid_history[Len(modelo'.pid_history)].salida_pid
                    = calculada
               /\ datos'[1].pid.salida = calculada ]_vars

\* clamp(x, 0, 100), in thousandths
Clamp100(x) == Max(0, Min(100000, x))

\* C18: on a non-aborted tick that starts with thrusters engaged and
\* fuel > 0, the throttle becomes clamp(10*(Kp*e + Ki*I + Kd*(e - e_prev)),
\* 0, 100), e the altitude at the start of the tick and I the integral after
\* adding e, and the acceleration throttle/10; with Ki = Kd = 0 the throttle
\* is clamp(Kp*altitude*10, 0, 100).
C18_PotenciaDelPid ==
    [][ (/\ ultima' = "actualizar_datos"
         /\ ~modelo.mision_abortada
         /\ modelo.estado_propulsores
         /\ modelo.combustible > 0)
        => LET e == modelo.altitud
               I == modelo.error_integral + e
               salida == Mul(modelo.Kp, e) + Mul(modelo.Ki, I)
                         + Mul(modelo.Kd, e - modelo.error_anterior)
           IN  /\ modelo'.potencia_propulsores = Clamp100(10 * salida)
               /\ modelo'.aceleracion = modelo'.potencia_propulsores \div 10
               /\ (modelo.Ki = 0 /\ modelo.Kd = 0)
                  => modelo'.potencia_propulsores
                       = Clamp100(10 * Mul(modelo.Kp, modelo.altitud)) ]_vars

\* C18 witness: a thrust tick whose throttle lies strictly inside the clamp
C18_Testigo ==
    /\ ultima = "actualizar_datos"
    /\ modelo.estado_propulsores /\ ~modelo.mision_abortada
    /\ modelo.potencia_propulsores > 0
    /\ modelo.potencia_propulsores < 100000
    /\ modelo.aceleracion * 10 = modelo.potencia_propulsores
    /\ modelo.combustible < 100000

\* C19: on a non-aborted tick that starts with thrusters off or fuel <= 0,
\* the acceleration becomes 0, throttle and fuel keep their values, and the
\* temperature moves by the random-walk term alone (at most 0.5 either way).
C19_TickSinEmpuje ==
    [][ (/\ ultima' = "actualizar_datos"
         /\ ~modelo.mision_abortada
         /\ (~modelo.estado_propulsores \/ modelo.combustible <= 0))
        => /\ modelo'.aceleracion = 0
           /\ modelo'.potencia_propulsores = modelo.potencia_propulsores
           /\ modelo'.combustible = modelo.combustible
           /\ modelo'.temperatura - modelo.temperatura <= 500
           /\ modelo.temperatura - modelo'.temperatura <= 500 ]_vars

\* C19 witness: a tick without thrust that left a non-zero throttle in place
C19_Testigo ==
    /\ ultima = "actualizar_datos"
    /\ ~modelo.mision_abortada
    /\ (~modelo.estado_propulsores \/ modelo.combustible <= 0)
    /\ modelo.aceleracion = 0
    /\ modelo.potencia_propulsores > 0

\* the last n entries of a
Sufijo(a, n) == SubSeq(a, Len(a) - n + 1, Len(a))

\* the alerts the three conditions call for in instance s, in their order
AlertasDebidas(s) ==
    (IF s.altitud < 10000 /\ s.velocidad < -15000
     THEN <<Alerta("ALERTA: Velocidad de descenso peligrosa!", TRUE)>> ELSE <<>>)
    \o (IF s.combustible < 10000
        THEN <<Alerta("ALERTA: Combustible critico!", TRUE)>> ELSE <<>>)
    \o (IF s.temperatura > 250000
        THEN <<Alerta("ALERTA: Temperatura critica!", TRUE)>> ELSE <<>>)

\* C20: every non-aborted tick appends one critical alert for each of the
\* three conditions that holds in the state its physics and environment
\* updates produce (dangerous descent, fuel critical, temperature critical,
\* in that order), every tick anew, and nothing else.
C20_AlertasPorTick ==
    [][ (ultima' = "actualizar_datos" /\ ~modelo.mision_abortada)
        => LET debidas == AlertasDebidas(modelo')
               n == Len(modelo'.alertas) - Len(debidas)
           IN  /\ n >= 0 /\ n <= Len(modelo.alertas)
               /\ Sufijo(modelo'.alertas, Len(debidas)) = debidas
               /\ SubSeq(modelo'.alertas, 1, n) = Sufijo(modelo.alertas, n)
               /\ n < Len(modelo.alertas) => Len(modelo'.alertas) = 10 ]_vars

\* C20 witness: a tick that raised all three alerts
C20_Testigo ==
    /\ ultima = "actualizar_datos"
    /\ Len(AlertasDebidas(modelo)) = 3
    /\ Len(modelo.alertas) >= 6
    /\ Sufijo(modelo.alertas, 3) = AlertasDebidas(modelo)
    /\ SubSeq(modelo.alertas, Len(modelo.alertas) - 5, Len(modelo.alertas) - 3)
         = AlertasDebidas(modelo)

\* C21: every non-aborted tick, whatever the thruster state, adds the
\* altitude at the start of the tick to error_integral and sets
\* error_anterior to it; that error is >= 0 (the target altitude is 0), and
\* error_integral never decreases except by a reset.
C21_IntegralSinTope ==
    [][ /\ (ultima' = "actualizar_datos" /\ ~modelo.mision_abortada)
           => /\ modelo'.error_integral = modelo.error_integral + modelo.altitud
              /\ modelo'.error_anterior = modelo.altitud
              /\ modelo.altitud >= 0
              /\ modelo.altitud_objetivo = 0
        /\ ultima' # "reiniciar_simulacion"
           => modelo'.error_integral >= modelo.error_integral ]_vars

\* C21 witness: two ticks with the thrusters off have driven the integral
C21_Testigo ==
    /\ ultima = "actualizar_datos"
    /\ ~modelo.estado_propulsores /\ ~modelo.mision_abortada
    /\ Len(modelo.telemetria) >= 2
    /\ modelo.error_anterior > 0
    /\ modelo.error_integral > 2 * modelo.error_anterior

\* C22: activar_propulsores is unconditional: in any state (thrusters already
\* as requested, fuel exhausted, mission aborted) it sets estado_propulsores
\* to its argument, appends exactly one non-critical alert and changes no
\* other field.
C22_ActivarPropulsores ==
    [][ ultima' = "activar_propulsores"
        => /\ modelo'.estado_propulsores = args'[1]
           /\ AgregaUna(modelo.alertas, modelo'.alertas, FALSE)
           /\ [modelo' EXCEPT !.estado_propulsores = modelo.estado_propulsores,
                              !.alertas = modelo.alertas] = modelo
           /\ ~excepcion' ]_vars

\* C22 witness: with the fuel exhausted and the mission aborted (which
\* engaged the thrusters), a second request to engage them was recorded
C22_Testigo ==
    /\ ultima = "activar_propulsores"
    /\ args = <<TRUE>>
    /\ modelo.mision_abortada
    /\ modelo.combustible <= 0
    /\ modelo.estado_propulsores
    /\ Len(modelo.alertas) >= 2
    /\ modelo.alertas[Len(modelo.alertas)].mensaje = "Propulsores activados"
    /\ modelo.alertas[Len(modelo.alertas) - 1].mensaje = "MISION ABORTADA!"

\* the row insert_alert writes for alert a
Fila(a) == [mensaje |-> Texto(a), critica |-> a.critico]

\* C23: the driver persists only newly appended alerts: every alert of the
\* model's log is inserted into the alertas table, and an alert that was
\* already in the log on the previous tick is not inserted again (a tick
\* that follows a tick and finds the log unchanged inserts nothing).
C23_SoloAlertasNuevas ==
    [][ ultima' = "actualizar_datos"
        => /\ \A i \in 1..Len(modelo'.alertas) :
                  Fila(modelo'.alertas[i]) \in DOMAIN db'.alertas
           /\ (ultima = "actualizar_datos" /\ modelo'.alertas = modelo.alertas)
              => db'.alertas = db.alertas ]_vars

\* t is a temperature within [20, 300]
EnRangoTermico(t) == 20000 <= t /\ t <= 300000

\* C24: temperature lies in [20, 300] in every reachable state, the clamp of
\* a tick coming after the thruster heating of the same tick; the snapshot
\* and the newest telemetry entry carry a temperature in that range too.
C24_TemperaturaEnRango ==
    /\ EnRangoTermico(modelo.temperatura)
    /\ datos # <<>> => EnRangoTermico(datos[1].temperatura)
    /\ modelo.telemetria # <<>>
       => EnRangoTermico(modelo.telemetria[Len(modelo.telemetria)].temperatura)

\* C24 witness: a tick that heated the rocket while it was at the ceiling
\* already, and recorded 300
C24_Testigo ==
    /\ ultima = "actualizar_datos"
    /\ modelo.estado_propulsores /\ ~modelo.mision_abortada
    /\ modelo.combustible > 0
    /\ modelo.potencia_propulsores = 100000
    /\ modelo.temperatura = 300000
    /\ Len(modelo.telemetria) >= 2
    /\ modelo.telemetria[Len(modelo.telemetria)].temperatura = 300000
    /\ modelo.telemetria[Len(modelo.telemetria) - 1].temperatura = 300000

\* the fields of instance s that the physics of a tick produces
Fisica(s) ==
    <<s.altitud, s.velocidad, s.aceleracion, s.combustible, s.temperatura>>

\* C25: a throttle set through ajustar_potencia never influences the
\* physics: of two runs that get the same commands and the same random draws
\* and differ only in ajustar_potencia calls, altitude, velocity,
\* acceleration, fuel and temperature are equal after every tick.
C25_PotenciaSinEfecto ==
    ultima = "actualizar_datos" => Fisica(gemelo) = Fisica(modelo)

\* C25 witness: a tick with thrusters engaged and the fuel exhausted, after
\* which the two runs hold different throttles; the twin's throttle was set
\* by hand before an earlier thrust tick as well
C25_Testigo ==
    /\ ultima = "actualizar_datos"
    /\ modelo.estado_propulsores
    /\ modelo.combustible <= 0
    /\ modelo.potencia_propulsores = 100000
    /\ gemelo.potencia_propulsores = 150000
    /\ Len(gemelo.pid_history) = Len(modelo.pid_history)
    /\ gemelo.pid_history # modelo.pid_history

\* the instance s with the fields a command may set given the values they
\* have in instance t
SalvoMandos(s, t) ==
    [s EXCEPT !.estado_propulsores = t.estado_propulsores,
              !.potencia_propulsores = t.potencia_propulsores,
              !.tren_desplegado = t.tren_desplegado,
              !.Kp = t.Kp, !.Ki = t.Ki, !.Kd = t.Kd,
              !.alertas = t.alertas]

\* C26: while mision_abortada is true, every operation except a reset is
\* accepted and can change only estado_propulsores, the throttle,
\* tren_desplegado, the gains and the alert log: altitude, velocity,
\* orientation, acceleration, temperature, fuel, pressure, humidity, wind,
\* error_integral, error_anterior, telemetry and controller history (and
\* every remaining field) stay unchanged.
C26_AbortadaSoloMandos ==
    [][ (modelo.mision_abortada /\ ultima' # "reiniciar_simulacion")
        => /\ SalvoMandos(modelo', modelo) = modelo
           /\ ~excepcion' ]_vars

\* C26 witness: after a tick and an abort, ajustar_pid was accepted and
\* changed the gains
C26_Testigo ==
    /\ modelo.mision_abortada
    /\ ultima = "ajustar_pid"
    /\ modelo.Kp = 0 /\ modelo.Ki = 1
    /\ modelo.error_integral > 0
    /\ Len(modelo.telemetria) = 1

\* C27: fuel undershoots zero by less than one tick's largest burn: fuel >
\* -0.5 in every reachable state, and from a state with fuel <= 0 no
\* operation but a reset changes the fuel and no tick produces an
\* acceleration other than 0 (a tick of an aborted mission produces nothing).
C27_CombustibleBajoCero ==
    [][ /\ modelo'.combustible > -500
        /\ (modelo.combustible <= 0 /\ ultima' # "reiniciar_simulacion")
           => /\ modelo'.combustible = modelo.combustible
              /\ ultima' = "actualizar_datos"
                 => IF modelo.mision_abortada THEN modelo' = modelo
                    ELSE modelo'.aceleracion = 0 ]_vars

\* C27 witness: the first tick after the one that burned the last fuel: the
\* fuel is below zero, that tick still had thrust, this one has none
C27_Testigo ==
    /\ ultima = "actualizar_datos"
    /\ ~modelo.mision_abortada
    /\ modelo.combustible < 0 /\ modelo.combustible > -500
    /\ modelo.aceleracion = 0
    /\ Len(modelo.telemetria) >= 2
    /\ modelo.telemetria[Len(modelo.telemetria)].aceleracion = 0
    /\ modelo.telemetria[Len(modelo.telemetria) - 1].aceleracion > 0

\* C28: right after every non-aborted tick the alert log holds at most 20
\* entries, however many the commands appended before the tick; a tick that
\* finds more than 20 (its own alerts included) keeps exactly the 10 most
\* recent, in order.
C28_AlertasTrasTick ==
    [][ (ultima' = "actualizar_datos" /\ ~modelo.mision_abortada)
        => LET todas == modelo.alertas \o AlertasDebidas(modelo')
           IN  /\ Len(modelo'.alertas) <= 20
               /\ Len(todas) > 20
                  => /\ Len(modelo'.alertas) = 10
                     /\ modelo'.alertas = SubSeq(todas, Len(todas) - 9, Len(todas))
               /\ Len(todas) <= 20 => modelo'.alertas = todas ]_vars

\* C28 witness: a tick cut the log to 10 entries, the alert of the command
\* called just before the tick among them
C28_Testigo ==
    /\ ultima = "actualizar_datos"
    /\ libres = 2
    /\ Len(modelo.alertas) = 10
    /\ modelo.alertas[1].critico
    /\ modelo.alertas[10].critico
    /\ \E i \in 7..9 : modelo.alertas[i].mensaje = "Propulsores desactivados"

\* C29: the fuel-critical alert is permanent once triggered: from a state
\* with fuel < 10 no operation but a reset raises the fuel, and every
\* non-aborted tick appends a fuel-critical alert (followed at most by the
\* temperature alert of the same tick).
C29_CombustibleCriticoPermanente ==
    [][ /\ (modelo.combustible < 10000 /\ ultima' # "reiniciar_simulacion")
           => modelo'.combustible < 10000
        /\ (/\ modelo.combustible < 10000
            /\ ultima' = "actualizar_datos"
            /\ ~modelo.mision_abortada)
           => LET n == Len(modelo'.alertas)
                  k == IF modelo'.temperatura > 250000 THEN n - 1 ELSE n
              IN  /\ k >= 1
                  /\ modelo'.alertas[k].mensaje = "ALERTA: Combustible critico!"
                  /\ modelo'.alertas[k].critico
                  /\ Len(modelo'.alertas) > Len(modelo.alertas)
                     \/ Len(modelo'.alertas) = 10 ]_vars

\* C29 witness: with fuel below 10 the thrusters were switched off, and the
\* tick after that raised the fuel alert again
C29_Testigo ==
    /\ ultima = "actualizar_datos"
    /\ libres = 2
    /\ ~modelo.estado_propulsores /\ ~modelo.mision_abortada
    /\ modelo.combustible < 10000 /\ modelo.combustible > 0
    /\ Len(modelo.alertas) >= 4
    /\ \E k \in {Len(modelo.alertas) - 1, Len(modelo.alertas)} :
           modelo.alertas[k].mensaje = "ALERTA: Combustible critico!"
    /\ \E k \in {Len(modelo.alertas) - 3, Len(modelo.alertas) - 2,
                 Len(modelo.alertas) - 1} :
           modelo.alertas[k].mensaje = "Propulsores desactivados"

\* the length of a history log after n recorded ticks
LongitudTrasTicks(n) == IF n <= 500 THEN n ELSE 250 + ((n - 501) % 251)

\* C30: the telemetry log and the controller history have equal length in
\* every reachable state; after n non-aborted ticks since construction or
\* the last reset (here every tick since then, reloj - tiempo_inicio) that
\* length is n for n <= 500 and 250 + ((n - 501) mod 251) for n > 500.
C30_RegistrosParejos ==
    /\ Len(modelo.telemetria) = Len(modelo.pid_history)
    /\ Len(modelo.telemetria) = LongitudTrasTicks(reloj - modelo.tiempo_inicio)

\* C30 witness: the tick that cut both logs for the second time, leaving the
\* entries of ticks 503 to 752
C30_Testigo ==
    /\ ultima = "actualizar_datos"
    /\ reloj - modelo.tiempo_inicio = 752
    /\ Len(modelo.telemetria) = 250
    /\ Len(modelo.pid_history) = 250
    /\ modelo.telemetria[1].tiempo = 503
    /\ modelo.pid_history[1].tiempo = 503

====
